---- MODULE Spec2Model ----
(***************************************************************************)
(* Model of decky_builder.py: the DeckyBuilder build pipeline (run/main),  *)
(* its stages, the exit-time cleanup and safe_remove_directory.            *)
(* Text values (release names, tool versions, PATH) are tuples of          *)
(* characters or components so that strip/startswith/"in" are computed.    *)
(***************************************************************************)
EXTENDS Integers, Sequences, FiniteSets, TLC

\* ------------------------------------------------------------------ text
Main == <<"m", "a", "i", "n">>
TagV2 == <<"v", "2">>
TagV3 == <<"v", "3">>
BadRef == <<"b", "a", "d">>
Empty == <<>>

\* values of --release given on the command line (argparse default "main")
ReleaseInputs == {Main, TagV2, BadRef, Empty}

\* references the cloned repository can check out; git has no empty ref name
RepoRefs == {Main, TagV2, TagV3}

\* stdout of a successful `git describe --tags --abbrev=0`
DescribeOutputs ==
  { <<"v", "3", "\n">>, <<"v", "3", "\f", "\n">>, <<"v", "3", "<U+2003>", "\n">>, <<"\n">> }

\* the characters str.strip() removes: tab, line feed, vertical tab, form
\* feed, carriage return, the separators U+001C..U+001F, space, U+0085,
\* U+00A0, U+1680, U+2000..U+200A, U+2028, U+2029, U+202F, U+205F, U+3000.
\* A character outside ASCII is the element "<U+hhhh>" named after its code
\* point.
Whitespace ==
  { "\t", "\n", "", "\f", "\r", "", "", "", "", " ", "<U+0085>", "<U+00A0>",
    "<U+1680>",
    "<U+2000>", "<U+2001>", "<U+2002>", "<U+2003>", "<U+2004>", "<U+2005>",
    "<U+2006>", "<U+2007>", "<U+2008>", "<U+2009>", "<U+200A>",
    "<U+2028>", "<U+2029>", "<U+202F>", "<U+205F>", "<U+3000>" }

RECURSIVE LStrip(_)
LStrip(s) == IF s # <<>> /\ Head(s) \in Whitespace THEN LStrip(Tail(s)) ELSE s

RECURSIVE RStrip(_)
RStrip(s) ==
  IF s # <<>> /\ s[Len(s)] \in Whitespace
  THEN RStrip(SubSeq(s, 1, Len(s) - 1))
  ELSE s

\* str.strip()
Strip(s) == RStrip(LStrip(s))

\* str.startswith(p)
StartsWith(s, p) == Len(s) >= Len(p) /\ SubSeq(s, 1, Len(p)) = p

\* `a in s` on strings: a is a contiguous part of s
Contains(s, a) ==
  \E i \in 1..(Len(s) + 1) : i + Len(a) - 1 <= Len(s) /\ SubSeq(s, i, i + Len(a) - 1) = a

\* ------------------------------------------------------------ file system
IsPrefix(p, q) == Len(p) <= Len(q) /\ SubSeq(q, 1, Len(p)) = p

HomebrewFolders == {"data", "logs", "plugins", "services", "settings", "themes"}

ServiceFiles == {"plugin_loader.exe", "PluginLoader_noconsole.exe", ".loader.version"}

PackageTree ==
  { <<>>, <<"loader.py">>, <<"static">>, <<"static", "index.js">>,
    <<"locales">>, <<"locales", "en.json">>, <<"plugin">>, <<"plugin", "p.py">> }

AppDir == <<"app">>
SrcDir == <<"src">>
DistDir == <<"dist">>
HomebrewDir == <<"dist", "homebrew">>
UserHomebrewDir == <<"home", "homebrew">>
TempDir == <<"temp">>
FrontendDir == <<"app", "frontend">>
BackendPkg == <<"app", "backend", "decky_loader">>
UserServices == <<"home", "homebrew", "services">>
StagingServices == <<"dist", "homebrew", "services">>
NodeInstaller == <<"temp", "node-v18.18.0-x64.msi">>
FrontendMarker == <<"app", "frontend", ".loader.version">>
BatchFile == <<"app", "frontend", "build_frontend.bat">>
StagedMarker == <<"src", "dist", ".loader.version">>
UserMarker == <<"home", "homebrew", "services", ".loader.version">>
SteamExe == <<"steam", "steam.exe">>
DebugFile == <<"steam", ".cef-enable-remote-debugging">>
Shortcut == <<"home", "Desktop", "Steam.lnk">>
StartupBat == <<"appdata", "Startup", "start_decky.bat">>

Paths ==
  { AppDir, <<"app", ".git">>, <<"app", ".git", "index">>, <<"app", "README">>,
    FrontendDir, FrontendMarker, BatchFile,
    <<"app", "backend">>, <<"app", "backend", "main.py">>,
    <<"app", "backend", "requirements.txt">>, <<"app", "backend", "pyproject.toml">> }
  \cup { BackendPkg \o t : t \in PackageTree }
  \cup { SrcDir, <<"src", "stale.txt">>, <<"src", "main.py">>, <<"src", "src">>,
         <<"src", "src", "legacy">>, <<"src", "dist">>, StagedMarker,
         <<"src", "dist", "PluginLoader.exe">>,
         <<"src", "dist", "PluginLoader_noconsole.exe">>,
         <<"src", "build">>, <<"src", "PluginLoader.spec">>,
         <<"src", "PluginLoader_noconsole.spec">> }
  \cup { <<"src", "decky_loader">> \o t : t \in PackageTree }
  \cup { DistDir, HomebrewDir, <<"dist", "homebrew", "dist">>, <<"build">> }
  \cup { HomebrewDir \o <<d>> : d \in HomebrewFolders }
  \cup { StagingServices \o <<x>> : x \in ServiceFiles }
  \cup { UserHomebrewDir }
  \cup { UserHomebrewDir \o <<d>> : d \in HomebrewFolders }
  \cup { UserServices \o <<x>> : x \in ServiceFiles \cup {"old_plugin"} }
  \cup { TempDir, NodeInstaller, SteamExe, DebugFile, Shortcut, StartupBat }

Absent == [kind |-> "absent", data |-> <<>>]
DirEnt == [kind |-> "dir", data |-> <<>>]
File(d) == [kind |-> "file", data |-> d]

\* os.path.exists / Path.exists
Exists(f, p) == f[p].kind # "absent"
IsFile(f, p) == f[p].kind = "file"

\* the entries below p (p included) that cannot be deleted: files another
\* process holds, read-only files, and the directories that contain them
Stuck(f, p, held) ==
  { q \in Paths : IsPrefix(p, q) /\ \E h \in held : Exists(f, h) /\ IsPrefix(q, h) }

\* shutil.rmtree(p, ignore_errors=True): whatever can be deleted is deleted
RmtreeIgnore(f, p, held) ==
  LET stuck == Stuck(f, p, held)
  IN  [q \in Paths |-> IF IsPrefix(p, q) /\ q \notin stuck THEN Absent ELSE f[q]]

\* shutil.rmtree(p) succeeds only when nothing below p is stuck
RmtreeOK(f, p, held) == Stuck(f, p, held) = {}

\* shutil.rmtree(p) that raises: it stops at the first file h it cannot
\* delete; in each directory on the way from p to h the entries listed before
\* the way on are gone, the entries listed after it are left, and the order
\* of a listing is not fixed. An entry listed before has nothing stuck below
\* it, else the walk would have stopped there.
RmtreeFailures(f, p, held) ==
  UNION { LET before == { c \in Paths :
                            /\ Exists(f, c) /\ Len(c) > Len(p) /\ IsPrefix(p, c)
                            /\ IsPrefix(SubSeq(c, 1, Len(c) - 1), h) /\ ~IsPrefix(c, h)
                            /\ Stuck(f, c, held) = {} }
          IN  { [q \in Paths |-> IF \E c \in gone : IsPrefix(c, q) THEN Absent ELSE f[q]] :
                  gone \in SUBSET before }
          : h \in { x \in held : x \in Paths /\ IsPrefix(p, x) /\ Exists(f, x) } }

\* os.makedirs(p, exist_ok=True) / Path.mkdir(parents=True, exist_ok=True)
Makedirs(f, p) ==
  [q \in Paths |-> IF IsPrefix(q, p) /\ ~Exists(f, q) THEN DirEnt ELSE f[q]]

\* open(p, "w").write(d)
WriteFile(f, p, d) == [f EXCEPT ![p] = File(d)]

\* variant: an existing destination file is extended instead of replaced
Copy2Append(f, s, d) ==
  [f EXCEPT ![d] = IF IsFile(f, d) /\ IsFile(f, s) THEN File(f[d].data \o f[s].data) ELSE f[s]]

\* shutil.copy2(s, d)
Copy2(f, s, d) == [f EXCEPT ![d] = f[s]]

\* shutil.copytree(s, d, dirs_exist_ok=True): every entry below s is created
\* or overwritten below d, entries only in d are kept
Copytree(f, s, d) ==
  [q \in Paths |->
     IF IsPrefix(d, q) /\ (s \o SubSeq(q, Len(d) + 1, Len(q))) \in Paths
        /\ Exists(f, s \o SubSeq(q, Len(d) + 1, Len(q)))
     THEN f[s \o SubSeq(q, Len(d) + 1, Len(q))]
     ELSE f[q]]

\* ------------------------------------------------- safe_remove_directory
MaxRetries == 3

\* where the body of one attempt can raise: nowhere, in path.exists(), or
\* while walking the .git directory
ErrPoints == {"none", "exists", "walk"}

GitDir(p) == p \o <<".git">>

\* the loop over git_dir.glob('**/*'): chmod(0o777) then unlink, failures
\* swallowed; a read-only file is deleted, a file held elsewhere is not
GitStrip(f, p, lck) ==
  IF GitDir(p) \in Paths /\ Exists(f, GitDir(p))
  THEN [q \in Paths |->
          IF IsPrefix(GitDir(p), q) /\ IsFile(f, q) /\ q \notin lck THEN Absent ELSE f[q]]
  ELSE f

\* one pass through the try block of safe_remove_directory
SRDAttempt(f, p, err, lck, ro) ==
  IF err = "exists" THEN [fs |-> f, raised |-> TRUE]
  ELSE IF ~Exists(f, p) THEN [fs |-> f, raised |-> FALSE]
  ELSE IF err = "walk" /\ GitDir(p) \in Paths /\ Exists(f, GitDir(p))
       THEN [fs |-> GitStrip(f, p, lck), raised |-> TRUE]
  ELSE [fs |-> RmtreeIgnore(GitStrip(f, p, lck), p, lck \cup ro), raised |-> FALSE]

\* variant: one more attempt is made before giving up
SRDExceptOutcomeExtra(a) == IF a < MaxRetries THEN "retry" ELSE "warn"

\* variant: the last failed attempt re-raises instead of warning
SRDExceptOutcomeReraise(a) == IF a < MaxRetries - 1 THEN "retry" ELSE "raise"

\* the except branch of attempt number a (0-based): sleep and retry, or
\* print the warning and fall out of the loop
SRDExceptOutcome(a) == IF a < MaxRetries - 1 THEN "retry" ELSE "warn"

\* the whole call, errs[i] the error point of attempt i; result file system
RECURSIVE SRDFrom(_, _, _, _, _, _)
SRDFrom(f, p, a, errs, lck, ro) ==
  LET r == SRDAttempt(f, p, errs[a + 1], lck, ro)
  IN  IF ~r.raised \/ a >= MaxRetries - 1 THEN r.fs
      ELSE SRDFrom(r.fs, p, a + 1, errs, lck, ro)

safe_remove_directory(f, p, errs, lck, ro) == SRDFrom(f, p, 0, errs, lck, ro)

\* ------------------------------------------------------------------ state
VARIABLES
  input,        \* args.release
  release,      \* self.release
  described,    \* stdout of this run's git describe, NotRun or ProbeFail
  fs,           \* the file system: path -> entry
  locked,       \* files held open by other processes
  readonly,     \* files with the read-only bit
  temp_files,   \* self.temp_files
  envpath,      \* os.environ["PATH"]
  cwd,          \* process working directory
  pc,           \* next stage of run(), or position in main()
  started,      \* stages started, in order
  ended,        \* how each started stage ended: "ok", "false", "raised"
  shape,        \* the parts missing from the tree git clone fetched
  calls,        \* external commands started by the latest stage, in order
  probes,       \* what the tool probes of the latest stage found
  packager,     \* results of the PyInstaller invocations made, in order
  markers,      \* version marker files written by this run
  out,          \* error lines and closing lines printed, in order
  exitCode,     \* process exit status, -1 while running
  srd_pc,       \* safe_remove_directory: "idle", "try", "except", "returned", "raised"
  srd_path,     \* its argument
  srd_attempt,  \* its loop variable
  srd_log       \* its attempts, sleeps and warnings, in order

mainVars ==
  <<input, release, described, temp_files, envpath, cwd, pc, started, ended, shape, calls, probes,
    packager, markers, out, exitCode>>
envVars == <<locked, readonly>>
srdVars == <<srd_pc, srd_path, srd_attempt, srd_log>>
vars == <<mainVars, fs, envVars, srdVars>>

Stages ==
  << "check_python_version", "check_dependencies", "setup_directories",
     "clone_repository", "setup_homebrew", "build_frontend", "prepare_backend",
     "install_requirements", "build_executables", "copy_to_homebrew",
     "setup_steam_config", "setup_autostart" >>

StageIndex(s) == CHOOSE i \in 1..Len(Stages) : Stages[i] = s

\* the statement after stage s in run()
After(s) == IF StageIndex(s) < Len(Stages) THEN Stages[StageIndex(s) + 1] ELSE "run_end"

\* ---------------------------------------------------------- initial state
OldExe == <<"e", "x", "e", "0">>
OldRelease == <<"v", "1">>

\* what a clone of the repository contains; missing names the absent parts
RepoShapes ==
  { {}, {FrontendDir}, {BackendPkg}, {BackendPkg \o <<"static">>},
    {BackendPkg \o <<"locales">>}, {BackendPkg \o <<"plugin">>},
    {<<"app", "backend", "main.py">>},
    {<<"app", "backend", "requirements.txt">>},
    {<<"app", "backend", "requirements.txt">>, <<"app", "backend", "pyproject.toml">>} }

ClonedEntry(q, missing) ==
  IF ~IsPrefix(AppDir, q) \/ q \in {FrontendMarker, BatchFile} THEN Absent
  ELSE IF \E m \in missing : IsPrefix(m, q) THEN Absent
  ELSE IF q \in { AppDir, <<"app", ".git">>, FrontendDir, <<"app", "backend">>,
                  BackendPkg, BackendPkg \o <<"static">>, BackendPkg \o <<"locales">>,
                  BackendPkg \o <<"plugin">> }
       THEN DirEnt
  ELSE IF q = BackendPkg \o <<"static", "index.js">> THEN Absent
  ELSE File(<<"s", "r", "c">>)

\* nothing of the builder exists yet
FreshFs(steam) ==
  [q \in Paths |-> IF q = SteamExe /\ steam THEN File(<<"s", "t", "e", "a", "m">>) ELSE Absent]

\* what an earlier run left behind: the clone, the staging root, the
\* per-user tree with its executables and marker, the OS hooks
LeftoverEntry(q) ==
  IF IsPrefix(AppDir, q) THEN
       IF q = FrontendMarker THEN File(OldRelease)
       ELSE IF q = BatchFile THEN Absent
       ELSE IF q = BackendPkg \o <<"static", "index.js">> THEN File(<<"j", "s">>)
       ELSE ClonedEntry(q, {})
  ELSE IF IsPrefix(SrcDir, q) THEN
       IF q \in { SrcDir, <<"src", "src">>, <<"src", "src", "legacy">>, <<"src", "dist">>,
                  <<"src", "build">>, <<"src", "decky_loader">>,
                  <<"src", "decky_loader", "static">>, <<"src", "decky_loader", "locales">>,
                  <<"src", "decky_loader", "plugin">> }
       THEN DirEnt
       ELSE IF q = StagedMarker THEN File(OldRelease)
       ELSE IF q[Len(q)] \in {"PluginLoader.exe", "PluginLoader_noconsole.exe"} THEN File(OldExe)
       ELSE File(<<"o", "l", "d">>)
  ELSE IF IsPrefix(UserHomebrewDir, q) THEN
       IF Len(q) <= 3 \/ q[Len(q)] = "old_plugin" THEN DirEnt
       ELSE IF q = UserMarker THEN File(OldRelease)
       ELSE File(OldExe)
  ELSE IF q \in {SteamExe, DebugFile, Shortcut, StartupBat} THEN File(<<"o", "l", "d">>)
  ELSE Absent

LeftoverFs == [q \in Paths |-> LeftoverEntry(q)]

NodeDir == <<"C:", "Program Files", "nodejs">>
NodeDir86 == <<"C:", "Program Files (x86)", "nodejs">>
NodeDirUser == <<"AppData", "Local", "Programs", "nodejs">>
NpmDir == <<"AppData", "npm">>
PathSep == <<";">>

\* values of PATH at start: one names a directory below a Node.js location,
\* one already has the Node.js install directory as an entry
PathLegacy == <<"C:", "Windows">> \o PathSep \o NodeDir86 \o <<"bin">>
PathWithNode == NodeDir \o PathSep \o <<"C:", "Windows">>
InitialPaths == {PathLegacy, PathWithNode}

\* start states of the host: the file system, the files held open by other
\* processes, the read-only files and PATH
Hosts ==
  { [fs |-> FreshFs(TRUE), locked |-> {}, readonly |-> {}, path |-> PathLegacy],
    [fs |-> LeftoverFs, locked |-> {}, readonly |-> {}, path |-> PathWithNode],
    [fs |-> LeftoverFs,
     locked |-> {<<"src", "stale.txt">>,
                 <<"home", "homebrew", "services", "PluginLoader_noconsole.exe">>},
     readonly |-> {<<"app", ".git", "index">>}, path |-> PathLegacy],
    [fs |-> [LeftoverFs EXCEPT ![SteamExe] = Absent],
     locked |-> {<<"app", ".git", "index">>}, readonly |-> {<<"app", "README">>},
     path |-> PathWithNode] }

NotFetched == {<<"?">>}

\* git describe has not been called
NotRun == <<"-">>

\* nothing has been probed
NoProbes == [node |-> <<>>, npm |-> "-", pnpm |-> "-", git |-> "-", onpath |-> <<>>]

InitCommon ==
  /\ input \in ReleaseInputs
  /\ release = input
  /\ described = NotRun
  /\ \E h \in Hosts :
       fs = h.fs /\ locked = h.locked /\ readonly = h.readonly /\ envpath = h.path
  /\ envpath \in InitialPaths
  /\ temp_files = <<>>
  /\ cwd = "root"
  /\ started = <<>>
  /\ ended = <<>>
  /\ shape = NotFetched
  /\ calls = <<>>
  /\ probes = NoProbes
  /\ packager = <<>>
  /\ markers = {}
  /\ out = <<>>
  /\ exitCode = -1

Init ==
  /\ InitCommon
  /\ pc = Stages[1]
  /\ srd_pc = "idle"
  /\ srd_path = AppDir
  /\ srd_attempt = 0
  /\ srd_log = <<>>

\* ------------------------------------- safe_remove_directory, step by step
SRDPaths == {AppDir, SrcDir, HomebrewDir, TempDir}

InitSRD ==
  /\ InitCommon
  /\ input = Main
  /\ pc = "srd"
  /\ srd_pc = "try"
  /\ srd_path \in SRDPaths
  /\ srd_attempt = 0
  /\ srd_log = <<>>

\* the try block of the current attempt
SRDTry ==
  /\ srd_pc = "try"
  /\ \E err \in ErrPoints :
       LET r == SRDAttempt(fs, srd_path, err, locked, readonly)
       IN  /\ fs' = r.fs
           /\ srd_pc' = IF r.raised THEN "except" ELSE "returned"
           /\ srd_log' = Append(srd_log, IF r.raised THEN "failed" ELSE "done")
  /\ UNCHANGED <<mainVars, envVars, srd_path, srd_attempt>>

\* the except block: sleep and retry, or warn after the last attempt
SRDExcept ==
  /\ srd_pc = "except"
  /\ LET o == SRDExceptOutcome(srd_attempt)
     IN  /\ srd_log' = Append(srd_log, IF o = "retry" THEN "sleep" ELSE IF o = "warn" THEN "warning" ELSE o)
         /\ srd_attempt' = IF o = "retry" THEN srd_attempt + 1 ELSE srd_attempt
         /\ srd_pc' = IF o = "retry" THEN "try" ELSE IF o = "warn" THEN "returned" ELSE "raised"
  /\ UNCHANGED <<mainVars, fs, envVars, srd_path>>

NextSRD == SRDTry \/ SRDExcept

SpecSRD == InitSRD /\ [][NextSRD]_vars

\* the loop runs on by itself: time.sleep returns and the next attempt starts
SpecSRDFair == SpecSRD /\ WF_vars(NextSRD)

\* ------------------------------------------------------------ run(): stages
\* variant: run() goes on with the next stage after a stage has raised
StageEndSwallow(s, r) ==
  /\ started' = Append(started, s)
  /\ ended' = Append(ended, r)
  /\ pc' = After(s)

\* bookkeeping common to all stages: stage s was started and ended with
\* result r; a raise unwinds to the except clause of run()
StageEnd(s, r) ==
  /\ started' = Append(started, s)
  /\ ended' = Append(ended, r)
  /\ pc' = IF r = "raised" THEN "run_except" ELSE After(s)

\* sys.version_info (major, minor) of interpreters that can load the file
PyVersions == {<<3, 11>>, <<3, 10>>, <<3, 12>>}

check_python_version ==
  /\ pc = "check_python_version"
  /\ \E v \in PyVersions :
       StageEnd("check_python_version", IF v[1] # 3 \/ v[2] # 11 THEN "raised" ELSE "ok")
  /\ calls' = <<>>
  /\ UNCHANGED <<input, described, release, temp_files, envpath, cwd, shape, packager, markers, out, exitCode>>
  /\ probes' = NoProbes
  /\ UNCHANGED <<fs, envVars, srdVars>>

\* ---- install_nodejs
V18180 == <<"v", "1", "8", ".", "1", "8", ".", "0">>
V18190 == <<"v", "1", "8", ".", "1", "9", ".", "0">>
V2000 == <<"v", "2", "0", ".", "0", ".", "0">>
Pinned == V18180
MajorPrefix == <<"v", "1", "8", ".">>
NodeVersions == {V18180, V18190, V2000}
NoNode == <<>>

\* a probe that exits non-zero or cannot be started
ProbeFail == <<"!">>

NodeLocations == <<NodeDir, NodeDir86, NodeDirUser>>

\* variant: the directory is put in front without the `not in` guard
PrependAlways(pth, d) == d \o PathSep \o pth

\* os.environ["PATH"] = d + os.pathsep + os.environ["PATH"], guarded by `d not in PATH`
Prepend(pth, d) == IF Contains(pth, d) THEN pth ELSE d \o PathSep \o pth

NoErrs == [i \in 1..MaxRetries |-> "none"]
AllErrs == [i \in 1..MaxRetries |-> "exists"]

InstallFailPoints ==
  {"download", "download_partial", "uninstall", "msiexec", "node_probe", "npm_probe"}

\* what the host does during one call of install_nodejs: the version found at
\* known location loc (NoNode: no node.exe there), the first step that fails,
\* the version the fresh install reports, the errors met by the final removal
InstallEnvs ==
  [loc : {2}, locVer : {V18180}, failAt : {"none"}, probe : {V18180}, errs : {NoErrs}]
  \cup [loc : {1}, locVer : {NoNode}, failAt : InstallFailPoints,
        probe : {V18180}, errs : {NoErrs}]
  \cup [loc : {1}, locVer : {V18190}, failAt : {"msiexec"}, probe : {V18180}, errs : {NoErrs}]
  \cup [loc : {1}, locVer : {NoNode}, failAt : {"none"}, probe : {V18190, V18180},
        errs : {NoErrs}]

\* the except clauses of install_nodejs: the inner one prints a line that
\* starts with "Error" only for a failed download, the outer one always
InstallRaise(f, pth, c, o, lines) ==
  [fs |-> f, envpath |-> pth, calls |-> c,
   out |-> o \o lines \o <<"Error installing Node.js">>, raised |-> TRUE]

\* the version `node --version` reports once the directory of a node.exe with
\* version v was to be put in front of PATH: PATH is left alone, and so is
\* what it resolves to, when the directory text occurs in it
Resolved(pth, d, v, before) == IF Contains(pth, d) THEN before ELSE v

install_nodejs(st, e, lck, ro) ==
  LET c1 == IF e.locVer = NoNode THEN st.calls ELSE Append(st.calls, "node.exe --version")
      f1 == Makedirs(st.fs, TempDir)
      needDl == ~Exists(f1, NodeInstaller)
      c2 == IF needDl THEN Append(c1, "download") ELSE c1
      f2 == IF needDl THEN WriteFile(f1, NodeInstaller, <<"m", "s", "i">>) ELSE f1
      c3 == Append(c2, "uninstall")
      c4 == Append(c3, "msiexec")
      p1 == Prepend(Prepend(st.envpath, NodeDir), NpmDir)
      c5 == Append(c4, "node --version")
      c6 == Append(c5, "npm --version")
  IN
  IF e.locVer # NoNode /\ StartsWith(e.locVer, Pinned)
  THEN [fs |-> st.fs, envpath |-> Prepend(st.envpath, NodeLocations[e.loc]),
        calls |-> c1, out |-> st.out, raised |-> FALSE,
        node |-> Resolved(st.envpath, NodeLocations[e.loc], e.locVer, st.node)]
  ELSE IF needDl /\ e.failAt = "download"
  THEN InstallRaise(f1, st.envpath, c2, st.out, <<"Error downloading Node.js installer">>)
         @@ [node |-> st.node]
  ELSE IF needDl /\ e.failAt = "download_partial"
  THEN \* urlretrieve has opened the file and the transfer breaks off: the
       \* incomplete installer stays
       InstallRaise(WriteFile(f1, NodeInstaller, <<"m">>), st.envpath, c2, st.out,
                    <<"Error downloading Node.js installer">>)
         @@ [node |-> st.node]
  ELSE IF e.failAt = "uninstall"
  THEN InstallRaise(f2, st.envpath, c3, st.out, <<>>) @@ [node |-> st.node]
  ELSE IF e.failAt = "msiexec"
  THEN InstallRaise(f2, st.envpath, c4, st.out, <<>>) @@ [node |-> st.node]
  ELSE IF e.failAt = "node_probe"
  THEN InstallRaise(f2, p1, c5, st.out, <<>>) @@ [node |-> ProbeFail]
  ELSE IF ~StartsWith(e.probe, Pinned)
  THEN InstallRaise(f2, p1, c5, st.out, <<>>) @@ [node |-> e.probe]
  ELSE IF e.failAt = "npm_probe"
  THEN InstallRaise(f2, p1, c6, st.out, <<>>) @@ [node |-> e.probe]
  ELSE [fs |-> safe_remove_directory(f2, TempDir, e.errs, lck, ro), envpath |-> p1,
        calls |-> c6, out |-> st.out, raised |-> FALSE, node |-> e.probe]

\* ---- check_dependencies

PnpmScenarios == {"present", "install_fails", "reprobe_fails", "installed"}

\* first install_nodejs call: the probes failed or the version does not start
\* with "v18."
NeedsInstall(node, npmOK) == node = ProbeFail \/ ~npmOK \/ ~StartsWith(node, MajorPrefix)

\* both probes worked and the version check sent control to install_nodejs
\* from inside the try block
InstallInTry(node, npmOK) == node # ProbeFail /\ npmOK /\ ~StartsWith(node, MajorPrefix)

\* the Node.js/npm block: an install_nodejs that raises inside the try is
\* caught by its except clause, which calls install_nodejs again
NodeBlock(st, node, npmOK, e1, e2, lck, ro) ==
  LET c0 == Append(st.calls, "node --version")
      c1 == IF node = ProbeFail THEN c0 ELSE Append(c0, "npm --version")
      s1 == [st EXCEPT !.calls = c1]
      r1 == install_nodejs(s1, e1, lck, ro)
  IN
  IF ~NeedsInstall(node, npmOK)
  THEN [fs |-> s1.fs, envpath |-> s1.envpath, calls |-> s1.calls, out |-> s1.out,
        raised |-> FALSE, node |-> s1.node]
  ELSE IF InstallInTry(node, npmOK) /\ r1.raised
  THEN install_nodejs([fs |-> r1.fs, envpath |-> r1.envpath, calls |-> r1.calls,
                       out |-> r1.out, node |-> r1.node], e2, lck, ro)
  ELSE r1

\* variant: a failed re-probe is answered by a second install and re-probe
PnpmBlockRetry(c, sc) ==
  LET c1 == Append(c, "pnpm --version")
      c2 == Append(c1, "npm i -g pnpm")
      c3 == Append(c2, "pnpm --version")
  IN  IF sc = "present" THEN [calls |-> c1, raised |-> FALSE]
      ELSE IF sc = "install_fails" THEN [calls |-> c2, raised |-> TRUE]
      ELSE IF sc = "reprobe_fails"
           THEN [calls |-> c3 \o <<"npm i -g pnpm", "pnpm --version">>, raised |-> TRUE]
      ELSE [calls |-> c3, raised |-> FALSE]

\* the pnpm block: probe, on failure one `npm i -g pnpm` and one re-probe
PnpmBlock(c, sc) ==
  LET c1 == Append(c, "pnpm --version")
      c2 == Append(c1, "npm i -g pnpm")
      c3 == Append(c2, "pnpm --version")
  IN  IF sc = "present" THEN [calls |-> c1, raised |-> FALSE]
      ELSE IF sc = "install_fails" THEN [calls |-> c2, raised |-> TRUE]
      ELSE IF sc = "reprobe_fails" THEN [calls |-> c3, raised |-> TRUE]
      ELSE [calls |-> c3, raised |-> FALSE]

AnInstallEnv == CHOOSE e \in InstallEnvs : TRUE

check_dependencies ==
  /\ pc = "check_dependencies"
  /\ \E node \in NodeVersions \cup {ProbeFail}, npmOK \in BOOLEAN :
     \E e1 \in IF NeedsInstall(node, npmOK) THEN InstallEnvs ELSE {AnInstallEnv} :
     \E e2 \in IF InstallInTry(node, npmOK)
                  /\ install_nodejs([fs |-> fs, envpath |-> envpath, calls |-> <<>>,
                                     out |-> out, node |-> node], e1, locked, readonly).raised
               THEN InstallEnvs ELSE {AnInstallEnv} :
       LET st == [fs |-> fs, envpath |-> envpath, calls |-> <<>>, out |-> out, node |-> node]
           n == NodeBlock(st, node, npmOK, e1, e2, locked, readonly)
           err == "Error checking dependencies"
           seen == [NoProbes EXCEPT !.node = node, !.onpath = n.node,
                      !.npm = IF node = ProbeFail THEN "-" ELSE IF npmOK THEN "ok" ELSE "missing"]
       IN  /\ fs' = n.fs
           /\ envpath' = n.envpath
           /\ IF n.raised
              THEN /\ calls' = n.calls
                   /\ probes' = seen
                   /\ out' = Append(n.out, err)
                   /\ StageEnd("check_dependencies", "raised")
              ELSE \E sc \in PnpmScenarios :
                   \E gitOK \in IF sc \in {"present", "installed"} THEN BOOLEAN ELSE {TRUE} :
                     LET p == PnpmBlock(n.calls, sc)
                     IN  IF p.raised
                         THEN /\ calls' = p.calls
                              /\ probes' = [seen EXCEPT !.pnpm = sc]
                              /\ out' = Append(n.out, err)
                              /\ StageEnd("check_dependencies", "raised")
                         ELSE /\ calls' = Append(p.calls, "git --version")
                              /\ probes' = [seen EXCEPT !.pnpm = sc,
                                               !.git = IF gitOK THEN "ok" ELSE "missing"]
                              /\ out' = IF gitOK THEN n.out ELSE Append(n.out, err)
                              /\ StageEnd("check_dependencies",
                                          IF gitOK THEN "ok" ELSE "raised")
  /\ UNCHANGED <<input, described, release, temp_files, cwd, shape, packager, markers, exitCode>>
  /\ UNCHANGED <<envVars, srdVars>>

\* ---- setup_directories
\* error points met by the attempts of one safe_remove_directory call
SRDErrChoices ==
  { NoErrs, AllErrs,
    [i \in 1..MaxRetries |-> IF i = 1 THEN "exists" ELSE IF i = 2 THEN "walk" ELSE "none"] }

\* `if d.exists(): self.safe_remove_directory(d)`
RemoveIfExists(f, d, errs, lck, ro) ==
  IF Exists(f, d) THEN safe_remove_directory(f, d, errs, lck, ro) ELSE f

\* how the two mkdir calls at the end of setup_directories go
MkdirOutcomes == {"ok", "src_fails", "dist_fails", "homebrew_fails"}

\* src_dir.mkdir, then homebrew_dir.mkdir(parents=True), which makes dist and
\* then dist/homebrew: a mkdir that fails leaves what was made before it
FreshDirs(f, mk) ==
  IF mk = "src_fails" THEN f
  ELSE IF mk = "dist_fails" THEN Makedirs(f, SrcDir)
  ELSE IF mk = "homebrew_fails" THEN Makedirs(Makedirs(f, SrcDir), DistDir)
  ELSE Makedirs(Makedirs(f, SrcDir), HomebrewDir)

setup_directories ==
  /\ pc = "setup_directories"
  /\ \E ea \in IF Exists(fs, AppDir) THEN SRDErrChoices ELSE {NoErrs},
        es \in IF Exists(fs, SrcDir) THEN SRDErrChoices ELSE {NoErrs},
        eh \in IF Exists(fs, HomebrewDir) THEN SRDErrChoices ELSE {NoErrs},
        mk \in MkdirOutcomes :
       LET f1 == RemoveIfExists(fs, AppDir, ea, locked, readonly)
           f2 == RemoveIfExists(f1, SrcDir, es, locked, readonly)
           f3 == RemoveIfExists(f2, HomebrewDir, eh, locked, readonly)
       IN  /\ fs' = FreshDirs(f3, mk)
           /\ StageEnd("setup_directories", IF mk = "ok" THEN "ok" ELSE "raised")
  /\ calls' = <<>>
  /\ UNCHANGED <<input, described, release, temp_files, envpath, cwd, shape, packager, markers, out, exitCode>>
  /\ probes' = NoProbes
  /\ UNCHANGED <<envVars, srdVars>>

\* ---- clone_repository
\* the working tree git clone creates at app
CloneInto(f, missing) ==
  [q \in Paths |-> IF IsPrefix(AppDir, q) THEN ClonedEntry(q, missing) ELSE f[q]]

\* variant: the latest tag replaces the release whatever was asked for
ResolveAlways(rel, d) == IF d # ProbeFail THEN Strip(d) ELSE rel

\* self.release after the `if self.release == 'main'` block; d is the stdout
\* of git describe, ProbeFail when it exits non-zero
ResolveRelease(rel, d) ==
  IF rel = Main /\ d # ProbeFail THEN Strip(d) ELSE rel

clone_repository ==
  /\ pc = "clone_repository"
  /\ IF Exists(fs, AppDir) /\ ~RmtreeOK(fs, AppDir, locked \cup readonly)
     THEN \* shutil.rmtree(self.app_dir) raises, part of the tree may be gone
          /\ fs' \in RmtreeFailures(fs, AppDir, locked \cup readonly)
          /\ calls' = <<>>
          /\ UNCHANGED <<release, described, cwd, shape>>
          /\ StageEnd("clone_repository", "raised")
     ELSE \/ \* git clone exits non-zero
             /\ fs' = RmtreeIgnore(fs, AppDir, {})
             /\ calls' = <<"git clone">>
             /\ UNCHANGED <<release, described, cwd, shape>>
             /\ StageEnd("clone_repository", "raised")
          \/ \E sh \in RepoShapes, coOK \in BOOLEAN,
                d \in DescribeOutputs \cup {ProbeFail} :
               LET rel == ResolveRelease(release, d)
                   c1 == <<"git clone">>
                   c2 == IF release = Main THEN Append(c1, "git describe") ELSE c1
                   ok == coOK /\ rel \in RepoRefs
               IN  /\ fs' = CloneInto(fs, sh)
                   /\ shape' = sh
                   /\ release' = rel
                   /\ described' = IF release = Main THEN d ELSE NotRun
                   /\ calls' = Append(c2, "git checkout")
                   /\ cwd' = IF ok THEN "root" ELSE "app"
                   /\ StageEnd("clone_repository", IF ok THEN "ok" ELSE "raised")
  /\ UNCHANGED <<input, temp_files, envpath, packager, markers, out, exitCode>>
  /\ probes' = NoProbes
  /\ UNCHANGED <<envVars, srdVars>>

\* ---- setup_homebrew
RECURSIVE MakeAll(_, _)
MakeAll(f, ps) ==
  IF ps = {} THEN f
  ELSE LET p == CHOOSE x \in ps : TRUE IN MakeAll(Makedirs(f, p), ps \ {p})

\* the directories setup_homebrew creates when absent
HomebrewLayout ==
  { <<"dist", "homebrew", "dist">> }
  \cup { HomebrewDir \o <<d>> : d \in HomebrewFolders }
  \cup { UserHomebrewDir \o <<d>> : d \in HomebrewFolders }

\* self.homebrew_folders, in order
FolderOrder == <<"data", "logs", "plugins", "services", "settings", "themes">>

\* the directories in the order setup_homebrew makes them: dist/homebrew/dist,
\* then for the staging tree and the per-user tree the tree and its folders
HomebrewOrder ==
  << <<"dist", "homebrew", "dist">>, HomebrewDir >>
  \o [i \in 1..Len(FolderOrder) |-> HomebrewDir \o <<FolderOrder[i]>>]
  \o <<UserHomebrewDir>>
  \o [i \in 1..Len(FolderOrder) |-> UserHomebrewDir \o <<FolderOrder[i]>>]

\* the first n directories of HomebrewOrder made, each only if absent
RECURSIVE MakeFirst(_, _)
MakeFirst(f, n) == IF n = 0 THEN f ELSE Makedirs(MakeFirst(f, n - 1), HomebrewOrder[n])

\* the mkdir calls that are made to fail: none (0), the first one, one in the
\* staging tree, the one of the per-user tree, one inside the per-user tree
HomebrewFailPoints == {0, 1, 5, 9, 12}

setup_homebrew ==
  /\ pc = "setup_homebrew"
  /\ \E k \in { n \in HomebrewFailPoints :
                  n = 0 \/ ~Exists(MakeFirst(fs, n - 1), HomebrewOrder[n]) } :
       \* a mkdir that raises leaves the directories made before it
       /\ fs' = IF k = 0 THEN MakeAll(fs, HomebrewLayout) ELSE MakeFirst(fs, k - 1)
       /\ StageEnd("setup_homebrew", IF k = 0 THEN "ok" ELSE "raised")
  /\ calls' = <<>>
  /\ UNCHANGED <<input, described, release, temp_files, envpath, cwd, shape, packager, markers, out, exitCode>>
  /\ probes' = NoProbes
  /\ UNCHANGED <<envVars, srdVars>>

\* ---- build_frontend
\* variant: the script has no errorlevel test after `call pnpm install`
BatchExitLast(installExit, buildExit) == buildExit

\* exit status of build_frontend.bat: `call pnpm install`, exit on a non-zero
\* errorlevel, `call pnpm run build`, exit on a non-zero errorlevel
BatchExit(installExit, buildExit) == IF installExit # 0 THEN installExit ELSE buildExit

\* commands the script starts
BatchCalls(installExit) ==
  IF installExit # 0 THEN <<"pnpm install">> ELSE <<"pnpm install", "pnpm run build">>

StaticBundle == BackendPkg \o <<"static", "index.js">>

build_frontend ==
  /\ pc = "build_frontend"
  /\ \E installExit \in {0, 1}, buildExit \in {0, 1}, bundle \in BOOLEAN :
       IF ~Exists(fs, FrontendDir)
       THEN /\ out' = Append(out, "Error building frontend")
            /\ calls' = <<>>
            /\ UNCHANGED <<fs, temp_files, markers>>
            /\ StageEnd("build_frontend", "raised")
       ELSE LET f1 == WriteFile(fs, FrontendMarker, release)
                f2 == WriteFile(f1, BatchFile, <<"b", "a", "t">>)
                x == BatchExit(installExit, buildExit)
                f3 == IF x = 0 /\ bundle
                      THEN WriteFile(Makedirs(f2, BackendPkg \o <<"static">>), StaticBundle,
                                     <<"j", "s">>)
                      ELSE f2
            IN  /\ fs' = f3
                /\ temp_files' = temp_files \o <<FrontendMarker, BatchFile>>
                /\ markers' = markers \cup {FrontendMarker}
                /\ calls' = <<"build_frontend.bat">> \o BatchCalls(installExit)
                \* the CalledProcessError handler prints "Error: <stderr>" and
                \* raises a new exception, its sibling handler is not entered
                /\ out' = IF x = 0 THEN out ELSE Append(out, "Error: <stderr of the script>")
                /\ StageEnd("build_frontend", IF x = 0 THEN "ok" ELSE "raised")
  \* finally: os.chdir(original_dir), the directory the stage was entered in
  /\ UNCHANGED <<input, described, release, envpath, cwd, shape, packager, exitCode>>
  /\ probes' = NoProbes
  /\ UNCHANGED <<envVars, srdVars>>

\* ---- prepare_backend
StagedPkg == <<"src", "decky_loader">>
BackendMain == <<"app", "backend", "main.py">>

\* variant: a missing source subtree is skipped instead of raising
PrepareBackendTolerant(f) ==
  LET f0 == Makedirs(f, SrcDir)
      f1 == Copytree(f0, BackendPkg, StagedPkg)
      f2 == Makedirs(Makedirs(Makedirs(f1, StagedPkg), <<"src", "src", "legacy">>),
                     <<"src", "dist">>)
      f3 == IF Exists(f2, BackendMain) THEN Copy2(f2, BackendMain, <<"src", "main.py">>) ELSE f2
      f4 == IF Exists(f3, FrontendMarker) THEN Copy2(f3, FrontendMarker, StagedMarker) ELSE f3
  IN  [fs |-> f4, raised |-> ~Exists(f3, FrontendMarker)]

\* the statements of prepare_backend in order; each copy raises when its
\* source is absent, leaving what the earlier statements did
PrepareBackendFrom(f) ==
  LET f0 == Makedirs(f, SrcDir)
      f1 == Copytree(f0, BackendPkg, StagedPkg)
      f2 == Makedirs(f1, StagedPkg)
      f3 == Copytree(f2, BackendPkg \o <<"static">>, StagedPkg \o <<"static">>)
      f4 == Copytree(f3, BackendPkg \o <<"locales">>, StagedPkg \o <<"locales">>)
      f5 == Copytree(f4, BackendPkg \o <<"plugin">>, StagedPkg \o <<"plugin">>)
      f6 == Makedirs(f5, <<"src", "src", "legacy">>)
      f7 == Copy2(f6, BackendMain, <<"src", "main.py">>)
      f8 == Makedirs(f7, <<"src", "dist">>)
      f9 == Copy2(f8, FrontendMarker, StagedMarker)
  IN  IF ~Exists(f0, BackendPkg) THEN [fs |-> f0, raised |-> TRUE]
      ELSE IF ~Exists(f2, BackendPkg \o <<"static">>) THEN [fs |-> f2, raised |-> TRUE]
      ELSE IF ~Exists(f3, BackendPkg \o <<"locales">>) THEN [fs |-> f3, raised |-> TRUE]
      ELSE IF ~Exists(f4, BackendPkg \o <<"plugin">>) THEN [fs |-> f4, raised |-> TRUE]
      ELSE IF ~Exists(f6, BackendMain) THEN [fs |-> f6, raised |-> TRUE]
      ELSE IF ~Exists(f8, FrontendMarker) THEN [fs |-> f8, raised |-> TRUE]
      ELSE [fs |-> f9, raised |-> FALSE]

prepare_backend ==
  /\ pc = "prepare_backend"
  /\ LET r == PrepareBackendFrom(fs)
     IN  /\ fs' = r.fs
         /\ markers' = IF r.raised THEN markers ELSE markers \cup {StagedMarker}
         /\ StageEnd("prepare_backend", IF r.raised THEN "raised" ELSE "ok")
  /\ calls' = <<>>
  /\ UNCHANGED <<input, described, release, temp_files, envpath, cwd, shape, packager, out, exitCode>>
  /\ probes' = NoProbes
  /\ UNCHANGED <<envVars, srdVars>>

\* ---- install_requirements
\* length of the hard-coded `dependencies` list
PyprojectDeps == 11

install_requirements ==
  /\ pc = "install_requirements"
  /\ \E pipOK \in BOOLEAN :
       IF Exists(fs, <<"app", "backend", "requirements.txt">>)
       THEN /\ calls' = <<"pip install -r">>
            /\ out' = IF pipOK THEN out ELSE Append(out, "Error installing requirements")
            /\ StageEnd("install_requirements", IF pipOK THEN "ok" ELSE "raised")
       ELSE IF Exists(fs, <<"app", "backend", "pyproject.toml">>)
       THEN \* one pip run per dependency, a failure is only a warning
            /\ calls' = [i \in 1..PyprojectDeps |-> "pip install"]
            /\ out' = out
            /\ StageEnd("install_requirements", "ok")
       ELSE /\ calls' = <<>>
            /\ out' = out
            /\ StageEnd("install_requirements", "ok")
  /\ UNCHANGED <<input, described, release, temp_files, envpath, cwd, shape, packager, markers, exitCode>>
  /\ probes' = NoProbes
  /\ UNCHANGED <<fs, envVars, srdVars>>

\* ---- build_executables
ConsoleExe == <<"e", "x", "e", "1", "c">>
DetachedExe == <<"e", "x", "e", "1", "n">>
BuiltConsole == <<"src", "dist", "PluginLoader.exe">>
BuiltDetached == <<"src", "dist", "PluginLoader_noconsole.exe">>
UserConsole == UserServices \o <<"plugin_loader.exe">>
UserDetached == UserServices \o <<"PluginLoader_noconsole.exe">>

\* exit of a PyInstaller invocation: zero, non-zero (CalledProcessError), or
\* the program cannot be started at all (FileNotFoundError)
PackagerResults == {"ok", "nonzero", "missing"}

\* variant: the services directory is removed together with its items
CleanServicesWhole(f) ==
  [q \in Paths |-> IF IsPrefix(UserServices, q) THEN Absent ELSE f[q]]

\* the loop that empties the services directory
CleanServices(f) ==
  [q \in Paths |-> IF IsPrefix(UserServices, q) /\ q # UserServices THEN Absent ELSE f[q]]

\* the names os.listdir(services_dir) returns
ServiceItems(f) == { x \in ServiceFiles \cup {"old_plugin"} : Exists(f, UserServices \o <<x>>) }

\* the orders os.listdir can return them in
ListOrders(f) ==
  { o \in [1..Cardinality(ServiceItems(f)) -> ServiceItems(f)] :
      \A i, j \in DOMAIN o : o[i] = o[j] => i = j }

\* the loop over the listed items: os.remove for a file, shutil.rmtree for a
\* directory; the first item that cannot be removed raises and the items
\* listed after it are left. The set of possible results for one listing.
RECURSIVE CleanInOrder(_, _, _)
CleanInOrder(f, order, held) ==
  IF order = <<>> THEN {[fs |-> f, raised |-> FALSE]}
  ELSE LET p == UserServices \o <<Head(order)>>
       IN  IF IsFile(f, p)
           THEN IF p \in held THEN {[fs |-> f, raised |-> TRUE]}
                ELSE CleanInOrder([f EXCEPT ![p] = Absent], Tail(order), held)
           ELSE IF RmtreeOK(f, p, held)
                THEN CleanInOrder(RmtreeIgnore(f, p, {}), Tail(order), held)
                ELSE {[fs |-> g, raised |-> TRUE] : g \in RmtreeFailures(f, p, held)}

ConsoleSpec == <<"src", "PluginLoader.spec">>
DetachedSpec == <<"src", "PluginLoader_noconsole.spec">>

\* what a successful PyInstaller run leaves in src: the work directory, the
\* executable in dist and the spec file named after --name
Packaged(f, exe, content, specfile) ==
  WriteFile(WriteFile(Makedirs(Makedirs(f, <<"src", "build">>), <<"src", "dist">>),
                      exe, content),
            specfile, <<"s", "p", "e", "c">>)

\* variant: the marker in services is written with the default "main"
DeployDefaultMarker(f, rel) ==
  LET f1 == Makedirs(Makedirs(f, UserServices), UserHomebrewDir \o <<"logs">>)
      f2 == Copy2(f1, BuiltConsole, UserConsole)
      f3 == Copy2(f2, BuiltDetached, UserDetached)
  IN  WriteFile(f3, UserMarker, Main)

\* the copies made after both invocations succeeded
Deploy(f, rel) ==
  LET f1 == Makedirs(Makedirs(f, UserServices), UserHomebrewDir \o <<"logs">>)
      f2 == Copy2(f1, BuiltConsole, UserConsole)
      f3 == Copy2(f2, BuiltDetached, UserDetached)
  IN  WriteFile(f3, UserMarker, rel)

\* the invocations made when the console one ends r1 and the detached one
\* would end r2: check=True leaves the try block at the first failure
PackagerRuns(r1, r2) == IF r1 = "ok" THEN <<r1, r2>> ELSE <<r1>>

build_executables ==
  /\ pc = "build_executables"
  /\ \E order \in ListOrders(fs), r1 \in PackagerResults, r2 \in {"ok", "nonzero"} :
     \E cleaned \in CleanInOrder(fs, order, locked \cup readonly) :
       LET f1 == CleanServices(fs)
           c1 == <<"pyinstaller --console">>
           c2 == Append(c1, "pyinstaller --noconsole")
           f2 == Packaged(f1, BuiltConsole, ConsoleExe, ConsoleSpec)
           f3 == Packaged(f2, BuiltDetached, DetachedExe, DetachedSpec)
           err == "Error during build process (build_executables)"
       IN
       IF cleaned.raised
       THEN \* os.remove / shutil.rmtree of an item in use raises OSError
            /\ fs' = cleaned.fs
            /\ calls' = <<>>
            /\ UNCHANGED <<packager, markers, out>>
            /\ StageEnd("build_executables", "raised")
       ELSE IF r1 = "missing"
       THEN /\ fs' = f1
            /\ calls' = c1
            /\ packager' = PackagerRuns(r1, r2)
            /\ UNCHANGED <<markers, out>>
            /\ StageEnd("build_executables", "raised")
       ELSE IF r1 = "nonzero"
       THEN /\ fs' = f1
            /\ calls' = c1
            /\ packager' = PackagerRuns(r1, r2)
            /\ markers' = markers
            /\ out' = Append(out, err)
            /\ StageEnd("build_executables", "false")
       ELSE IF r2 = "nonzero"
       THEN /\ fs' = f2
            /\ calls' = c2
            /\ packager' = PackagerRuns(r1, r2)
            /\ markers' = markers
            /\ out' = Append(out, err)
            /\ StageEnd("build_executables", "false")
       ELSE /\ fs' = Deploy(f3, release)
            /\ calls' = c2
            /\ packager' = PackagerRuns(r1, r2)
            /\ markers' = markers \cup {UserMarker}
            /\ out' = out
            /\ StageEnd("build_executables", "ok")
  /\ UNCHANGED <<input, described, release, temp_files, envpath, cwd, shape, exitCode>>
  /\ probes' = NoProbes
  /\ UNCHANGED <<envVars, srdVars>>

\* ---- copy_to_homebrew
copy_to_homebrew ==
  /\ pc = "copy_to_homebrew"
  /\ \E mkOK \in BOOLEAN :
       /\ fs' = IF mkOK THEN Makedirs(fs, HomebrewDir) ELSE fs
       /\ out' = IF mkOK THEN out ELSE Append(out, "Error during copy to homebrew")
       /\ StageEnd("copy_to_homebrew", IF mkOK THEN "ok" ELSE "raised")
  /\ calls' = <<>>
  /\ UNCHANGED <<input, described, release, temp_files, envpath, cwd, shape, packager, markers, exitCode>>
  /\ probes' = NoProbes
  /\ UNCHANGED <<envVars, srdVars>>

\* ---- setup_steam_config
\* how far the stage gets: the registry has no InstallPath, or it has one and
\* touching the flag file / creating the shortcut works or raises
SteamScenarios == {"no_registry_path", "touch_fails", "shortcut_fails", "all_ok"}

setup_steam_config ==
  /\ pc = "setup_steam_config"
  /\ \E sc \in SteamScenarios :
       LET touched == WriteFile(fs, DebugFile,
                                IF IsFile(fs, DebugFile) THEN fs[DebugFile].data ELSE <<>>)
           linked == WriteFile(touched, Shortcut, <<"-", "d", "e", "v">>)
           err == "Error configuring Steam"
       IN
       IF sc = "no_registry_path"
       THEN /\ fs' = fs
            /\ out' = out
            /\ StageEnd("setup_steam_config", "ok")
       ELSE IF ~Exists(fs, SteamExe)
       THEN /\ fs' = fs
            /\ out' = out
            /\ StageEnd("setup_steam_config", "ok")
       ELSE IF sc = "touch_fails"
       THEN /\ fs' = fs
            /\ out' = Append(out, err)
            /\ StageEnd("setup_steam_config", "raised")
       ELSE IF sc = "shortcut_fails"
       THEN /\ fs' = touched
            /\ out' = Append(out, err)
            /\ StageEnd("setup_steam_config", "raised")
       ELSE /\ fs' = linked
            /\ out' = out
            /\ StageEnd("setup_steam_config", "ok")
  /\ calls' = <<>>
  /\ UNCHANGED <<input, described, release, temp_files, envpath, cwd, shape, packager, markers, exitCode>>
  /\ probes' = NoProbes
  /\ UNCHANGED <<envVars, srdVars>>

\* ---- setup_autostart
\* how writing start_decky.bat goes: written, open() fails, f.write() fails
StartupWrites == {"ok", "open_fails", "write_fails"}

setup_autostart ==
  /\ pc = "setup_autostart"
  /\ \E w \in StartupWrites :
       \* open(.., "w") creates or truncates the script before f.write runs
       /\ fs' = IF w = "ok" THEN WriteFile(fs, StartupBat, <<"b", "a", "t">>)
                ELSE IF w = "write_fails" THEN WriteFile(fs, StartupBat, <<>>)
                ELSE fs
       /\ out' = IF w = "ok" THEN out ELSE Append(out, "Error setting up autostart")
       /\ StageEnd("setup_autostart", IF w = "ok" THEN "ok" ELSE "false")
  /\ calls' = <<>>
  /\ UNCHANGED <<input, described, release, temp_files, envpath, cwd, shape, packager, markers, exitCode>>
  /\ probes' = NoProbes
  /\ UNCHANGED <<envVars, srdVars>>

\* ------------------------------------------------- end of run() and main()
SuccessLine == "Build process completed successfully!"
ErrorLine == "Error during build process"
InstalledLine == "Decky Loader has been installed to"

\* run(): the prints after the last stage
run_success ==
  /\ pc = "run_end"
  /\ out' = Append(out, SuccessLine)
  /\ pc' = "main_ok"
  /\ UNCHANGED <<input, described, release, temp_files, envpath, cwd, started, ended, shape, calls, probes,
                 packager, markers, exitCode>>
  /\ UNCHANGED <<fs, envVars, srdVars>>

\* run(): except Exception: print, raise
run_except ==
  /\ pc = "run_except"
  /\ out' = Append(out, ErrorLine)
  /\ pc' = "main_except"
  /\ UNCHANGED <<input, described, release, temp_files, envpath, cwd, started, ended, shape, calls, probes,
                 packager, markers, exitCode>>
  /\ UNCHANGED <<fs, envVars, srdVars>>

\* main(): builder.run() returned
main_ok ==
  /\ pc = "main_ok"
  /\ out' = Append(out, InstalledLine)
  /\ exitCode' = 0
  /\ pc' = "atexit"
  /\ UNCHANGED <<input, described, release, temp_files, envpath, cwd, started, ended, shape, calls, probes,
                 packager, markers>>
  /\ UNCHANGED <<fs, envVars, srdVars>>

\* main(): except Exception: print, sys.exit(1)
main_except ==
  /\ pc = "main_except"
  /\ out' = Append(out, ErrorLine)
  /\ exitCode' = 1
  /\ pc' = "atexit"
  /\ UNCHANGED <<input, described, release, temp_files, envpath, cwd, started, ended, shape, calls, probes,
                 packager, markers>>
  /\ UNCHANGED <<fs, envVars, srdVars>>

\* ---- cleanup (atexit)
\* one iteration of `for temp_file in self.temp_files`
RemoveTemp(f, t, held) ==
  IF ~Exists(f, t) THEN f
  ELSE IF IsFile(f, t) THEN (IF t \in held THEN f ELSE [f EXCEPT ![t] = Absent])
  ELSE RmtreeIgnore(f, t, held)

RECURSIVE RemoveTemps(_, _, _)
RemoveTemps(f, ts, held) ==
  IF ts = <<>> THEN f ELSE RemoveTemps(RemoveTemp(f, Head(ts), held), Tail(ts), held)

\* the directories cleanup deletes besides the registered paths
CleanupDirs == <<<<"build">>, DistDir>>

CleanupFs(f, ts, held) ==
  LET f1 == RemoveTemps(f, ts, held)
      f2 == IF Exists(f1, CleanupDirs[1]) THEN RmtreeIgnore(f1, CleanupDirs[1], held) ELSE f1
  IN  IF Exists(f2, CleanupDirs[2]) THEN RmtreeIgnore(f2, CleanupDirs[2], held) ELSE f2

cleanup ==
  /\ pc = "atexit"
  /\ fs' = CleanupFs(fs, temp_files, locked \cup readonly)
  /\ pc' = "exited"
  /\ UNCHANGED <<input, described, release, temp_files, envpath, cwd, started, ended, shape, calls, probes,
                 packager, markers, out, exitCode>>
  /\ UNCHANGED <<envVars, srdVars>>

Next ==
  \/ check_python_version
  \/ check_dependencies
  \/ setup_directories
  \/ clone_repository
  \/ setup_homebrew
  \/ build_frontend
  \/ prepare_backend
  \/ install_requirements
  \/ build_executables
  \/ copy_to_homebrew
  \/ setup_steam_config
  \/ setup_autostart
  \/ run_success
  \/ run_except
  \/ main_ok
  \/ main_except
  \/ cleanup

Spec == Init /\ [][Next]_vars

\* ------------------------------------------------------------ properties
InSeq(x, q) == \E i \in 1..Len(q) : q[i] = x

Started(s) == InSeq(s, started)

\* how stage s ended, "-" while it has not ended
Ended(s) == IF StageIndex(s) <= Len(ended) THEN ended[StageIndex(s)] ELSE "-"

Exited == exitCode # -1

\* C1: if the console-attached packager invocation exits non-zero, the
\* detached invocation is never started, none of copy_to_homebrew,
\* setup_steam_config, setup_autostart is started, and the exit code is
\* non-zero.
C1_ConsoleFailureAborts ==
  (packager # <<>> /\ packager[1] = "nonzero") =>
    /\ Len(packager) = 1
    /\ ~InSeq("pyinstaller --noconsole", calls)
    /\ ~Started("copy_to_homebrew")
    /\ ~Started("setup_steam_config")
    /\ ~Started("setup_autostart")
    /\ (Exited => exitCode # 0)

\* C2: the exit code is 0 exactly when every stage succeeded; when a stage
\* failed, by raising or by its return value, the exit code is non-zero and
\* an error line was printed before the exit.
C2_ExitCodeReflectsStages ==
  Exited =>
    /\ (exitCode = 0) <=>
         (Len(ended) = Len(Stages) /\ \A i \in 1..Len(ended) : ended[i] = "ok")
    /\ (exitCode # 0 => InSeq(ErrorLine, out))

\* C3: a failed OS-integration step (no install path in the registry, flag
\* file not created, shortcut not created, autostart script not written) is
\* fatal: no success message, non-zero exit code.
C3_IntegrationFailureIsFatal ==
  LET steamFailed ==
        \/ Ended("setup_steam_config") = "raised"
        \/ /\ Ended("setup_steam_config") = "ok"
           /\ ~Exists(fs, DebugFile) \/ ~Exists(fs, Shortcut)
      autostartFailed == Ended("setup_autostart") = "false"
  IN  (steamFailed \/ autostartFailed) =>
        /\ ~InSeq(SuccessLine, out)
        /\ (Exited => exitCode # 0)

\* C4: the stages start in the fixed order of run(), each at most once, a
\* stage starts only after the previous one has ended, and after a stage has
\* raised no later stage starts.
C4_StagesInOrder ==
  /\ Len(started) <= Len(Stages)
  /\ \A i \in 1..Len(started) : started[i] = Stages[i]
  /\ Len(ended) = Len(started)
  /\ \A i \in 1..Len(ended) : ended[i] = "raised" => i = Len(started)
  /\ (pc \in {"run_except", "main_except"} => ended # <<>> /\ ended[Len(ended)] = "raised")

C4_Witness ==
  /\ pc = "exited"
  /\ Len(started) = 7
  /\ ended[7] = "raised"
  /\ \A i \in 1..6 : ended[i] = "ok"

\* C5: safe_remove_directory never lets an exception reach its caller,
\* whatever the path holds and however often removal fails; for a path that
\* does not exist it leaves the file system as it is.
C5_RemoveNeverRaises ==
  /\ [](srd_pc # "raised")
  /\ [][(srd_pc = "try" /\ ~Exists(fs, srd_path)) => fs' = fs]_vars

C5_Witness ==
  /\ srd_pc = "returned"
  /\ srd_attempt = MaxRetries - 1
  /\ srd_log = <<"failed", "sleep", "failed", "sleep", "failed", "warning">>
  /\ Exists(fs, srd_path)

\* C6: after clone_repository has returned normally, self.release is the input
\* when the input is not "main", and git describe was not called; when the
\* input is "main", git describe was called and self.release is its stdout
\* stripped when it succeeded, "main" when it failed; it is never empty.
C6_ResolvedRelease ==
  Ended("clone_repository") = "ok" =>
    /\ input # Main =>
         /\ release = input
         /\ described = NotRun
         /\ (pc = After("clone_repository") => ~InSeq("git describe", calls))
    /\ input = Main =>
         /\ described \in DescribeOutputs \cup {ProbeFail}
         /\ (described = ProbeFail => release = Main)
         /\ (described # ProbeFail => release = Strip(described))
         /\ (pc = After("clone_repository") => InSeq("git describe", calls))
    /\ release # Empty

C6_Witness ==
  /\ pc = After("clone_repository")
  /\ input = Main
  /\ described = <<"v", "3", "<U+2003>", "\n">>
  /\ release = TagV3
  /\ InSeq("git describe", calls)

\* C7: every version marker this run has written and that still exists holds
\* self.release, and self.release does not change once a marker is written.
C7_MarkersAgree ==
  /\ [](\A m \in markers : Exists(fs, m) => fs[m] = File(release))
  /\ [][markers # {} => release' = release]_vars

C7_Witness ==
  /\ markers = {FrontendMarker, StagedMarker, UserMarker}
  /\ \A m \in markers : Exists(fs, m)
  /\ input = Main
  /\ release = TagV3

\* C8: once build_executables and copy_to_homebrew have completed, the two
\* executables (under distinct names) and the version marker are in the
\* per-user services directory and in the services directory of dist/homebrew.
C8_DeployedToBothTrees ==
  (Ended("build_executables") = "ok" /\ Ended("copy_to_homebrew") = "ok" /\ ~Exited) =>
    /\ UserConsole # UserDetached
    /\ \A x \in ServiceFiles : IsFile(fs, UserServices \o <<x>>)
    /\ \A x \in ServiceFiles : IsFile(fs, StagingServices \o <<x>>)

\* C9: every transient path the run creates (build script, frontend marker,
\* downloaded installer and its directory) is in self.temp_files from its
\* creation on, and none of them exists once the process has exited.
C9_TransientsRegisteredAndRemoved ==
  LET created == { p \in {BatchFile, TempDir, NodeInstaller} : Exists(fs, p) }
                 \cup { p \in {FrontendMarker} : p \in markers /\ Exists(fs, p) }
  IN  /\ \A p \in created : InSeq(p, temp_files)
      /\ (pc = "exited" => created = {})

\* C10: when the clone has no app/backend/decky_loader, prepare_backend
\* raises, PyInstaller is never started, no executable is written to the
\* per-user services directory, and the exit code is non-zero.
C10_MissingBackendAborts ==
  (shape # NotFetched /\ BackendPkg \in shape) =>
    /\ Ended("prepare_backend") \in {"-", "raised"}
    /\ packager = <<>>
    /\ ~InSeq("pyinstaller --console", calls)
    /\ fs[UserConsole] # File(ConsoleExe)
    /\ fs[UserDetached] # File(DetachedExe)
    /\ (Exited => exitCode # 0)

C10_Witness ==
  /\ shape = {BackendPkg}
  /\ pc = "exited"
  /\ Ended("prepare_backend") = "raised"
  /\ Ended("build_frontend") = "ok"
  /\ exitCode = 1

\* C11: prepare_backend is idempotent: with the fetched tree and the release
\* fixed, a second run right after the first ends the same way and leaves
\* every path, those of the staging root included, as the first run left it.
C11_PrepareBackendIdempotent ==
  /\ pc = "prepare_backend" =>
        LET once == PrepareBackendFrom(fs)
        IN  PrepareBackendFrom(once.fs) = once
  /\ (Len(started) = StageIndex("prepare_backend")
        /\ pc \in {After("prepare_backend"), "run_except"}) =>
        PrepareBackendFrom(fs) = [fs |-> fs, raised |-> Ended("prepare_backend") = "raised"]

C11_Witness ==
  /\ pc = After("prepare_backend")
  /\ Ended("prepare_backend") = "ok"
  /\ fs[StagedMarker] = File(release)
  /\ Exists(fs, <<"src", "stale.txt">>)
  /\ fs[<<"src", "main.py">>] = fs[BackendMain]
  /\ PrepareBackendFrom(fs).fs = fs

\* commands that install, download or uninstall a tool
InstallCalls == {"download", "uninstall", "msiexec", "npm i -g pnpm"}

\* C12: if npm or git is found missing by check_dependencies, the stage
\* raises and has started no install, download or uninstall command.
C12_MissingToolAbortsAtOnce ==
  (probes.npm = "missing" \/ probes.git = "missing") =>
    /\ Ended("check_dependencies") = "raised"
    /\ \A c \in InstallCalls : ~InSeq(c, calls)

\* C13: whenever check_dependencies has returned normally, the node version
\* the search path resolves to is exactly the pinned v18.18.0.
C13_PinnedRuntimeOnPath ==
  (pc = After("check_dependencies") /\ Ended("check_dependencies") = "ok") =>
    probes.onpath = Pinned

\* setup_homebrew has returned and run() has not gone past the end of
\* build_executables
InPackagingWindow ==
  /\ Ended("setup_homebrew") = "ok"
  /\ Len(started) <= StageIndex("build_executables")
  /\ pc \in { "build_frontend", "prepare_backend", "install_requirements",
              "build_executables", "copy_to_homebrew", "run_except", "main_except",
              "atexit" }

\* C14: from the return of setup_homebrew until build_executables has
\* completed, dist/homebrew and the per-user homebrew tree each contain the
\* six directories data, logs, plugins, services, settings, themes; and
\* setup_homebrew applied when they all exist changes nothing.
C14_HomebrewTreesComplete ==
  InPackagingWindow =>
    /\ \A d \in HomebrewFolders :
         /\ fs[HomebrewDir \o <<d>>].kind = "dir"
         /\ fs[UserHomebrewDir \o <<d>>].kind = "dir"
    /\ MakeAll(fs, HomebrewLayout) = fs

C14_Witness ==
  /\ InPackagingWindow
  /\ pc = "copy_to_homebrew"
  /\ Ended("build_executables") = "false"
  /\ fs[UserServices].kind = "dir"
  /\ \A x \in ServiceFiles \cup {"old_plugin"} : ~Exists(fs, UserServices \o <<x>>)
  /\ \A d \in HomebrewFolders : Exists(fs, HomebrewDir \o <<d>>)

\* k failed attempts, each followed by the delay
FailedRounds(k) == [i \in 1..(2 * k) |-> IF i % 2 = 1 THEN "failed" ELSE "sleep"]

\* the courses a call of safe_remove_directory can take: up to two failed
\* attempts and then one without error, or three failed attempts, the last
\* followed by the warning instead of the delay
CompleteLogs ==
  { FailedRounds(k) \o <<"done">> : k \in 0..(MaxRetries - 1) }
  \cup { SubSeq(FailedRounds(MaxRetries), 1, 2 * MaxRetries - 1) \o <<"warning">> }

\* C15: safe_remove_directory terminates after at most 3 attempts: a failed
\* attempt that is not the last is followed by the delay and another attempt,
\* the third failed attempt by the warning and a normal return without a
\* delay, and the first attempt without error ends the call.
C15_RemoveTerminates ==
  /\ [](\E l \in CompleteLogs : IsPrefix(srd_log, l))
  /\ [](srd_pc = "returned" <=> srd_log \in CompleteLogs)
  /\ <>(srd_pc = "returned")

C15_Witness ==
  /\ srd_pc = "returned"
  /\ srd_attempt = 1
  /\ srd_log = <<"failed", "sleep", "done">>

\* C16: when the fetched backend package lacks its static, locales or plugin
\* directory, prepare_backend still returns normally once it is started.
C16_OptionalSubtreesTolerated ==
  (/\ shape \in { {BackendPkg \o <<"static">>}, {BackendPkg \o <<"locales">>},
                  {BackendPkg \o <<"plugin">>} }
   /\ Started("prepare_backend")) =>
    Ended("prepare_backend") = "ok"

\* positions in the command log c after the last start of the installer
AfterInstaller(c) ==
  { i \in 1..Len(c) : \E j \in 1..(i - 1) :
      c[j] = "msiexec" /\ \A k \in (j + 1)..Len(c) : c[k] # "msiexec" }

\* C17: when install_nodejs fails because the re-probe after the install did
\* not report the pinned version, it has probed the version 3 times.
C17_ReprobesThreeTimes ==
  (/\ Len(started) = StageIndex("check_dependencies")
   /\ Ended("check_dependencies") = "raised"
   /\ AfterInstaller(calls) # {}
   /\ calls[Len(calls)] = "node --version") =>
    Cardinality({ i \in AfterInstaller(calls) : calls[i] = "node --version" }) = 3

\* how often command x was started
Count(c, x) == Cardinality({ i \in 1..Len(c) : c[i] = x })

EndsWith(c, s) == Len(c) >= Len(s) /\ SubSeq(c, Len(c) - Len(s) + 1, Len(c)) = s

\* C18: when the pnpm probe fails, check_dependencies runs exactly one
\* `npm i -g pnpm` and, if that worked, exactly one re-probe; a failure of
\* either makes the stage raise and the run abort, with no second install.
C18_PnpmOneAttempt ==
  LET installs == Count(calls, "npm i -g pnpm")
      pnpmProbes == Count(calls, "pnpm --version")
      aborted == /\ Ended("check_dependencies") = "raised"
                 /\ pc \in {"run_except", "main_except", "atexit", "exited"}
                 /\ Exited => exitCode = 1
  IN  /\ probes.pnpm = "present" => installs = 0 /\ pnpmProbes = 1
      /\ probes.pnpm = "install_fails" =>
            /\ installs = 1 /\ pnpmProbes = 1 /\ aborted
            /\ EndsWith(calls, <<"pnpm --version", "npm i -g pnpm">>)
      /\ probes.pnpm = "reprobe_fails" =>
            /\ installs = 1 /\ pnpmProbes = 2 /\ aborted
            /\ EndsWith(calls, <<"pnpm --version", "npm i -g pnpm", "pnpm --version">>)
      /\ probes.pnpm = "installed" =>
            /\ installs = 1 /\ pnpmProbes = 2
            /\ EndsWith(calls, <<"pnpm --version", "npm i -g pnpm", "pnpm --version",
                                 "git --version">>)

C18_Witness ==
  /\ probes.pnpm = "reprobe_fails"
  /\ pc = "exited"
  /\ exitCode = 1
  /\ Count(calls, "npm i -g pnpm") = 1

\* C19: build_frontend without a frontend directory raises before the marker
\* or the script is written; otherwise the script starts the dependency
\* installation and then, only if that exited zero, the production build,
\* and a non-zero exit of either makes the stage raise and the run abort.
C19_FrontendBuild ==
  LET justRan == /\ Len(started) = StageIndex("build_frontend")
                 /\ pc \in {After("build_frontend"), "run_except"}
      withBuild == <<"build_frontend.bat", "pnpm install", "pnpm run build">>
      installOnly == <<"build_frontend.bat", "pnpm install">>
  IN  /\ (justRan /\ FrontendDir \in shape) =>
            /\ Ended("build_frontend") = "raised" /\ pc = "run_except"
            /\ calls = <<>>
            /\ ~Exists(fs, FrontendMarker) /\ ~Exists(fs, BatchFile)
            /\ FrontendMarker \notin markers
            /\ ~InSeq(FrontendMarker, temp_files) /\ ~InSeq(BatchFile, temp_files)
      /\ (justRan /\ FrontendDir \notin shape) =>
            /\ calls \in {withBuild, installOnly}
            /\ calls = installOnly => Ended("build_frontend") = "raised"
            /\ Ended("build_frontend") = "raised" <=> pc = "run_except"
            /\ IsFile(fs, FrontendMarker) /\ IsFile(fs, BatchFile)
      /\ \A i \in {0, 1}, b \in {0, 1} :
            /\ BatchExit(i, b) = 0 <=> (i = 0 /\ b = 0)
            /\ InSeq("pnpm run build", BatchCalls(i)) <=> i = 0

C19_Witness ==
  /\ Len(started) = StageIndex("build_frontend")
  /\ pc = "run_except"
  /\ Ended("build_frontend") = "raised"
  /\ calls = <<"build_frontend.bat", "pnpm install">>
  /\ IsFile(fs, BatchFile)

\* the entries of a PATH value, in order
RECURSIVE SplitFrom(_, _)
SplitFrom(rest, cur) ==
  IF rest = <<>> THEN <<cur>>
  ELSE IF <<Head(rest)>> = PathSep THEN <<cur>> \o SplitFrom(Tail(rest), <<>>)
  ELSE SplitFrom(Tail(rest), Append(cur, Head(rest)))

Entries(pth) == SplitFrom(pth, <<>>)

\* new is old with zero or more directories put in front, none of them an
\* entry of old and no two of them the same
GrowsOnly(old, new) ==
  LET eo == Entries(old)
      en == Entries(new)
      k == Len(en) - Len(eo)
  IN  /\ k >= 0
      /\ SubSeq(en, k + 1, Len(en)) = eo
      /\ \A i \in 1..k :
           /\ \A j \in 1..Len(eo) : eo[j] # en[i]
           /\ \A j \in 1..k : i # j => en[i] # en[j]

\* C20: the search path only grows: every step of the run leaves PATH as it
\* was or puts directories in front of it; no entry is removed or reordered,
\* no directory already on the path is added again, and later stages,
\* failing ones and the exit included, keep the additions.
C20_PathOnlyGrows == [][GrowsOnly(envpath, envpath')]_vars

C20_Witness ==
  /\ pc = "exited"
  /\ exitCode = 1
  /\ Len(started) > StageIndex("check_dependencies")
  /\ envpath = NpmDir \o PathSep \o PathWithNode

\* C21: whenever the run has written the autostart entry, the detached
\* executable it launches exists in the per-user services directory and is
\* the one this run packaged.
C21_AutostartTargetBuilt ==
  Ended("setup_autostart") = "ok" =>
    /\ IsFile(fs, StartupBat)
    /\ fs[UserDetached] = File(DetachedExe)

\* the executables and the marker of an earlier successful run are in the
\* per-user services directory of file system f
PreviousDeployment(f) ==
  /\ f[UserConsole] = File(OldExe)
  /\ f[UserDetached] = File(OldExe)
  /\ f[UserMarker] = File(OldRelease)

\* C22: a step of the run that does not deploy both new executables leaves
\* the executables and the version marker of a previous successful run in
\* the per-user services directory unchanged.
C22_ServicesAllOrNothing ==
  [][(/\ PreviousDeployment(fs)
      /\ ~(/\ fs'[UserConsole] = File(ConsoleExe)
           /\ fs'[UserDetached] = File(DetachedExe)))
     => \A x \in ServiceFiles : fs'[UserServices \o <<x>>] = fs[UserServices \o <<x>>]]_vars

\* C23: the exit-time cleanup deletes neither dist/homebrew nor anything in
\* the per-user homebrew tree: after a successful run has exited both trees
\* exist with their six directories.
C23_CleanupKeepsRuntimeTrees ==
  (pc = "exited" /\ exitCode = 0) =>
    /\ Exists(fs, HomebrewDir)
    /\ Exists(fs, UserHomebrewDir)
    /\ \A d \in HomebrewFolders :
         /\ Exists(fs, HomebrewDir \o <<d>>)
         /\ Exists(fs, UserHomebrewDir \o <<d>>)

\* C24: once a stage has ended, normally or by raising, the working directory
\* is the one the run started in, never inside app.
C24_WorkingDirectoryRestored == ended # <<>> => cwd = "root"
====
